---- MODULE Spec2Model ----
(***************************************************************************)
(* Blender2Camera2 v1.3 (src/b2c2_export.py): export_main as a state       *)
(* machine, with the Blender calls it makes modelled by what they do.      *)
(*                                                                         *)
(* Numbers.  Lengths and degree values are fixed-point integers in units   *)
(* of 1/10000 (so 1.0 is 10000 and round(x, 3) rounds to a multiple of     *)
(* 10).  Radian-valued angles are integers in units of 1/100000 of a       *)
(* quarter turn, so math.radians(-90) is -QuarterTurn and math.degrees     *)
(* multiplies by DegPerUnit.  Orientations are the 24 axis-aligned         *)
(* rotation matrices (entries -1, 0, 1), on which sin, cos, atan2 and      *)
(* hypot are exact.  NaN is one value outside every range used.            *)
(***************************************************************************)
EXTENDS Integers, Sequences, FiniteSets, TLC

\* ------------------------------------------------------------------ bounds

\* Timeline frames are drawn from 1..MaxFrame.
MaxFrame == 2

\* ------------------------------------------------------------- arithmetic

\* math.radians(-90), line 360: a quarter turn, in angle units.
QuarterTurn == 100000

\* math.degrees: one angle unit is 9/10000 of a degree.
DegPerUnit == 9

\* A non-finite float (float('nan')).
NaN == 2^30

Abs(v) == IF v < 0 THEN -v ELSE v

\* Unary minus of a float: -nan is nan.
Neg(v) == IF v = NaN THEN NaN ELSE -v

\* math.degrees(a) for an angle a in angle units; the result in 1/10000 deg.
Degrees(a) == IF a = NaN THEN NaN ELSE DegPerUnit * a

\* round(v, 3) on a 1/10000 fixed-point value: nearest multiple of 10, a tie
\* going to the even thousandth.  round(nan, 3) is nan.
Round3(v) ==
    IF v = NaN THEN NaN
    ELSE LET q == v \div 10
             r == v % 10
         IN  IF r < 5 THEN 10 * q
             ELSE IF r > 5 THEN 10 * (q + 1)
             ELSE IF q % 2 = 0 THEN 10 * q ELSE 10 * (q + 1)

\* cos and sin of a multiple of a quarter turn.
Cos(a) == LET q == (a \div QuarterTurn) % 4
          IN  IF q = 0 THEN 1 ELSE IF q = 2 THEN -1 ELSE 0

Sin(a) == LET q == (a \div QuarterTurn) % 4
          IN  IF q = 1 THEN 1 ELSE IF q = 3 THEN -1 ELSE 0

Sgn(v) == IF v > 0 THEN 1 ELSE IF v < 0 THEN -1 ELSE 0

\* atan2f(y, x) for y, x whose ratio is 0, 1 or infinite; in angle units,
\* in (-2 QuarterTurn, 2 QuarterTurn].  atan2f(0, 0) is 0.
Atan2(y, x) ==
    LET sy == Sgn(y)
        sx == Sgn(x)
        h  == QuarterTurn \div 2
    IN  IF sy = 0 THEN (IF sx < 0 THEN 2 * QuarterTurn ELSE 0)
        ELSE IF sx = 0 THEN sy * QuarterTurn
        ELSE IF sx > 0 THEN sy * h
        ELSE sy * 3 * h

\* hypotf(a, b) when at most one of a, b is non-zero (every row and column
\* of an axis-aligned rotation matrix has one non-zero entry).
Hypot(a, b) == IF a = 0 THEN Abs(b) ELSE Abs(a)

\* ------------------------------------------------------- mathutils / BLI

\* An Euler order's axes (i, j, k) and parity: BLI rotOrders[].
RotOrderAxis(order) ==
    IF order = "XYZ" THEN <<0, 1, 2>> ELSE <<1, 0, 2>>

RotOrderParity(order) == IF order = "XYZ" THEN 0 ELSE 1

\* A 3x3 matrix is a tuple of three rows.  El(m, c, r) is C's mat[c][r]:
\* column c, row r, both from 0.
El(m, c, r) == m[r + 1][c + 1]

Identity3 == << <<1, 0, 0>>, <<0, 1, 0>>, <<0, 0, 1>> >>

MatMul(a, b) ==
    [r \in 1..3 |-> [c \in 1..3 |->
        a[r][1] * b[1][c] + a[r][2] * b[2][c] + a[r][3] * b[3][c]]]

\* eulO_to_mat3: the rotation matrix of Euler angles e (x, y, z components)
\* applied in the given order.
EulOToMat3(e, order) ==
    LET ax == RotOrderAxis(order)
        i  == ax[1]
        j  == ax[2]
        k  == ax[3]
        p  == RotOrderParity(order)
        ti == IF p = 1 THEN -e[i + 1] ELSE e[i + 1]
        tj == IF p = 1 THEN -e[j + 1] ELSE e[j + 1]
        th == IF p = 1 THEN -e[k + 1] ELSE e[k + 1]
        ci == Cos(ti)
        cj == Cos(tj)
        ch == Cos(th)
        si == Sin(ti)
        sj == Sin(tj)
        sh == Sin(th)
        cc == ci * ch
        cs == ci * sh
        sc == si * ch
        ss == si * sh
        \* M[c][r], keyed by <<c, r>>
        M  == [cr \in (0..2) \X (0..2) |->
                 IF cr = <<i, i>> THEN cj * ch
                 ELSE IF cr = <<j, i>> THEN sj * sc - cs
                 ELSE IF cr = <<k, i>> THEN sj * cc + ss
                 ELSE IF cr = <<i, j>> THEN cj * sh
                 ELSE IF cr = <<j, j>> THEN sj * ss + cc
                 ELSE IF cr = <<k, j>> THEN sj * cs - sc
                 ELSE IF cr = <<i, k>> THEN -sj
                 ELSE IF cr = <<j, k>> THEN cj * si
                 ELSE cj * ci]
    IN  [r \in 1..3 |-> [c \in 1..3 |-> M[<<c - 1, r - 1>>]]]

\* mat3_normalized_to_eulo2: the two Euler solutions of a rotation matrix.
Mat3ToEulO2(m, order) ==
    LET ax == RotOrderAxis(order)
        i  == ax[1]
        j  == ax[2]
        k  == ax[3]
        cy == Hypot(El(m, i, i), El(m, i, j))
        a1 == IF cy > 0
              THEN [n \in 0..2 |->
                      IF n = i THEN Atan2(El(m, j, k), El(m, k, k))
                      ELSE IF n = j THEN Atan2(-El(m, i, k), cy)
                      ELSE Atan2(El(m, i, j), El(m, i, i))]
              ELSE [n \in 0..2 |->
                      IF n = i THEN Atan2(-El(m, k, j), El(m, j, j))
                      ELSE IF n = j THEN Atan2(-El(m, i, k), cy)
                      ELSE 0]
        a2 == IF cy > 0
              THEN [n \in 0..2 |->
                      IF n = i THEN Atan2(-El(m, j, k), -El(m, k, k))
                      ELSE IF n = j THEN Atan2(-El(m, i, k), -cy)
                      ELSE Atan2(-El(m, i, j), -El(m, i, i))]
              ELSE a1
        s  == IF RotOrderParity(order) = 1 THEN -1 ELSE 1
    IN  << <<s * a1[0], s * a1[1], s * a1[2]>>,
           <<s * a2[0], s * a2[1], s * a2[2]>> >>

\* mat3_normalized_to_eulO (Matrix.to_euler(order), and the rotation_euler
\* an object gets from an assigned matrix): the solution with the smaller
\* sum of absolute angles, the first on a tie.
Mat3ToEulO(m, order) ==
    LET e  == Mat3ToEulO2(m, order)
        d1 == Abs(e[1][1]) + Abs(e[1][2]) + Abs(e[1][3])
        d2 == Abs(e[2][1]) + Abs(e[2][2]) + Abs(e[2][3])
    IN  IF d1 > d2 THEN e[2] ELSE e[1]

\* The 24 axis-aligned rotations.
Turns == {-QuarterTurn, 0, QuarterTurn, 2 * QuarterTurn}

Rotations == {EulOToMat3(<<a, b, c>>, "XYZ") : a \in Turns, b \in Turns, c \in Turns}

\* ---------------------------------------------------------------- strings

\* A string is a sequence of one-character strings.
UpperCase == <<"A","B","C","D","E","F","G","H","I","J","K","L","M",
               "N","O","P","Q","R","S","T","U","V","W","X","Y","Z">>

LowerCase == <<"a","b","c","d","e","f","g","h","i","j","k","l","m",
               "n","o","p","q","r","s","t","u","v","w","x","y","z">>

LowerChar(c) ==
    IF \E n \in 1..26 : UpperCase[n] = c
    THEN LowerCase[CHOOSE n \in 1..26 : UpperCase[n] = c]
    ELSE c

\* str.lower()
Lower(s) == [n \in 1..Len(s) |-> LowerChar(s[n])]

\* str.startswith(prefix)
StartsWith(s, prefix) ==
    /\ Len(s) >= Len(prefix)
    /\ SubSeq(s, 1, Len(prefix)) = prefix

\* The largest index of character c in s, 0 when it has none (str.rfind + 1).
RFind(s, c) ==
    IF \E n \in 1..Len(s) : s[n] = c
    THEN CHOOSE n \in 1..Len(s) : s[n] = c /\ \A k \in (n + 1)..Len(s) : s[k] # c
    ELSE 0

\* os.path.splitext(p)[0]: p up to the last dot of its last component, when
\* that dot follows a character of the component that is not a dot.
SplitextRoot(p) ==
    LET sep == RFind(p, "/")
        dot == RFind(p, ".")
    IN  IF dot > sep /\ \E n \in (sep + 1)..(dot - 1) : p[n] # "."
        THEN SubSeq(p, 1, dot - 1)
        ELSE p

\* ----------------------------------------------------------------- config

CONFIG_CAMERA_PREFIX == <<"b", "2", "c", "2", "_">>

CONFIG_CAMERA_SENSOR_FIT == "VERTICAL"

CONFIG_EXPORT_OBJECT_PREFIX ==
    <<"b","2","c","2","_","e","x","p","o","r","t","_","o","b","j","e","c","t","_">>

\* ------------------------------------------------------------ scene inputs

\* view_layer.objects.active when no object is active (None).
NoObject == <<>>

\* The objects a blend file may hold: two cameras that carry the prefix (one
\* in upper case), a camera that does not, and a mesh that does.
CamA == [name |-> <<"b","2","c","2","_","a">>, type |-> "CAMERA"]

CamB == [name |-> <<"B","2","C","2","_","b">>, type |-> "CAMERA"]

CamOther == [name |-> <<"c","a","m">>, type |-> "CAMERA"]

MeshB2C2 == [name |-> <<"b","2","c","2","_","m">>, type |-> "MESH"]

\* The blend files: with no, one and two cameras to export.
Scenes ==
    { {}, {CamOther, MeshB2C2}, {CamA}, {CamB, MeshB2C2},
      {CamA, CamB}, {CamA, CamB, CamOther, MeshB2C2} }

\* bpy.data.objects for a set of candidates: name -> object data.
ObjectsOf(cs) ==
    [n \in {c.name : c \in cs} |->
        [type |-> (CHOOSE c \in cs : c.name = n).type, sensor_fit |-> "AUTO"]]

Frames == 1..MaxFrame

\* A camera's evaluated state at a frame: matrix_world (rotation part and
\* translation) and data.angle_y.
Pose(rot, loc, angle_y) == [rot |-> rot, loc |-> loc, angle_y |-> angle_y]

\* The rotations by angle a about the X axis and about the Z axis
\* (counter-clockwise for a positive a, as Blender turns).
RotX(a) == << <<1, 0, 0>>, <<0, Cos(a), -Sin(a)>>, <<0, Sin(a), Cos(a)>> >>

RotZ(a) == << <<Cos(a), -Sin(a), 0>>, <<Sin(a), Cos(a), 0>>, <<0, 0, 1>> >>

\* The poses the cameras of the export run take: looking forward; yawed a
\* quarter turn, at a position with fractions; looking down, with a
\* non-finite position component and a non-finite field of view.
ScenePoses ==
    { Pose(RotX(QuarterTurn), <<10000, 20000, 30000>>, 44444),
      Pose(MatMul(RotZ(QuarterTurn), RotX(QuarterTurn)), <<12344, -5006, 30016>>, 100000),
      Pose(Identity3, <<NaN, 0, 10000>>, NaN) }

\* Every axis-aligned orientation at a few positions.
AllPoses ==
    { Pose(r, l, 44444) : r \in Rotations,
                          l \in {<<10000, 20000, 30000>>, <<12344, -5006, 30016>>} }

\* scene.render.fps with the operator's loop and sync options.
RunSettings ==
    { [fps |-> 30, loop |-> TRUE,  syncToSong |-> TRUE],
      [fps |-> 24, loop |-> FALSE, syncToSong |-> FALSE] }

FilePaths == { <<"o", ".", "j", "s", "o", "n">>, <<"v", ".", "1", "/", "o">> }

\* The first characters of the random name's hex digest.
HexDigests == { <<"0", "f">> }

\* ------------------------------------------------------------------- state

VARIABLES
    pc,                 \* where export_main is
    exc,                \* the exception that ended it, "" when none
    objects,            \* bpy.data.objects: name -> [type, sensor_fit]
    selected,           \* names of the selected objects
    active,             \* view_layer.objects.active's name, or NoObject
    frame_start,        \* scene.frame_start
    frame_end,          \* scene.frame_end
    frame_current,      \* the frame scene.frame_set last set
    setting_fixFov,     \* setting_fixFovForBlenderRender
    world,              \* <<camera, frame>> -> the Pose the scene gave there
    pre_selected_active_object,
    pre_selected_objects,
    cameras,            \* the list of cameras found
    export_obj,         \* the temporary object: name and transform
    cam_i,              \* index in cameras of the camera being sampled
    frame,              \* the frame loop's variable
    paths,              \* ordered dict: sequence of [name, frames]
    duration,           \* 1 / fps as [num, den]
    movement,           \* ordered dict: sequence of [name, doc]
    path_base_noext,    \* os.path.splitext(filepath)[0]
    write_i,            \* index in movement of the file being written
    files,              \* path -> the text this run left there
    found               \* the scene as the export found it: object names,
                        \* selection and active object (history, never read)

vars == <<pc, exc, objects, selected, active, frame_start, frame_end,
          frame_current, setting_fixFov, world, pre_selected_active_object,
          pre_selected_objects, cameras, export_obj, cam_i, frame, paths,
          duration, movement, path_base_noext, write_i, files, found>>

sceneVars == <<objects, selected, active, frame_start, frame_end,
               frame_current, setting_fixFov, world, found>>

\* What the scene held when the operator was invoked.
Found ==
    [objects |-> DOMAIN objects, selected |-> selected, active |-> active]

NoExportObj == [name |-> NoObject, loc |-> <<0, 0, 0>>,
                rotation_euler |-> <<0, 0, 0>>,
                matrix_world |-> [rot |-> Identity3, loc |-> <<0, 0, 0>>]]

Locals0 ==
    /\ pc = "start"
    /\ exc = ""
    /\ world = <<>>
    /\ pre_selected_active_object = NoObject
    /\ pre_selected_objects = {}
    /\ cameras = <<>>
    /\ export_obj = NoExportObj
    /\ cam_i = 0
    /\ frame = 0
    /\ paths = <<>>
    /\ duration = [num |-> 0, den |-> 1]
    /\ movement = <<>>
    /\ path_base_noext = <<>>
    /\ write_i = 0
    /\ files = <<>>

\* A blend file, its selection and timeline, and the operator's options.
Init ==
    /\ \E cs \in Scenes : objects = ObjectsOf(cs)
    /\ \/ active = NoObject /\ selected = {}
       \/ active \in DOMAIN objects /\ selected = {active}
    /\ frame_start \in Frames
    /\ frame_end \in Frames
    /\ frame_current = 1
    /\ setting_fixFov \in BOOLEAN
    /\ found = Found
    /\ Locals0

\* ------------------------------------------------- the coordinate transform

\* A mutant of SetMatrixWorld: the matrix is stored, location and
\* rotation_euler are left as they were.
SetMatrixWorldOnly(obj, mw) == [obj EXCEPT !.matrix_world = mw]

\* Assigning obj.matrix_world (line 356): the matrix is stored and decomposed
\* at once into the object's location and its 'XYZ' rotation_euler.
SetMatrixWorld(obj, mw) ==
    [obj EXCEPT !.matrix_world = mw,
                !.loc = mw.loc,
                !.rotation_euler = Mat3ToEulO(mw.rot, "XYZ")]

\* scene.frame_set(frame); layer.update() as the export object sees them: it
\* has no animation, so its matrix_world is rebuilt from location and
\* rotation_euler.
DepsgraphUpdate(obj) ==
    [obj EXCEPT !.matrix_world =
        [rot |-> EulOToMat3(obj.rotation_euler, "XYZ"), loc |-> obj.loc]]

\* export_obj.rotation_euler[0] += math.radians(-90)  (line 360)
AddPitchOffset(obj) ==
    [obj EXCEPT !.rotation_euler[1] = @ - QuarterTurn]

\* Lines 356-362: the export object after it took a camera's matrix and the
\* pitch offset.
OffsetExportObj(obj, mw_blender) ==
    DepsgraphUpdate(AddPitchOffset(DepsgraphUpdate(SetMatrixWorld(obj, mw_blender))))

\* Matrix.to_translation()
ToTranslation(mw) == mw.loc

\* Matrix.to_euler(order): the Euler's x, y and z components.
ToEuler(mw, order) == Mat3ToEulO(mw.rot, order)

\* A mutant of DictUnity: the position is packed in the order it was
\* unpacked.
DictUnityPosAsUnpacked(f, mw_unity, fov) ==
    LET t == ToTranslation(mw_unity)
        e == ToEuler(mw_unity, "YXZ")
    IN  [frame |-> f,
         pos   |-> <<t[1], t[2], t[3]>>,
         rot   |-> <<Neg(e[1]), Neg(e[3]), Neg(e[2])>>,
         fov   |-> fov]

\* A mutant of DictUnity: the rotation is packed in the order it was
\* unpacked.
DictUnityRotAsUnpacked(f, mw_unity, fov) ==
    LET t == ToTranslation(mw_unity)
        e == ToEuler(mw_unity, "YXZ")
    IN  [frame |-> f,
         pos   |-> <<t[1], t[3], t[2]>>,
         rot   |-> <<Neg(e[1]), Neg(e[2]), Neg(e[3])>>,
         fov   |-> fov]

\* Lines 400-408: dict_unity of a frame, from mw_unity and the fov.
DictUnity(f, mw_unity, fov) ==
    LET t  == ToTranslation(mw_unity)
        e  == ToEuler(mw_unity, "YXZ")
        px == t[1]
        pz == t[2]
        py == t[3]
        rx == e[1]
        rz == e[2]
        ry == e[3]
    IN  [frame |-> f,
         pos   |-> <<px, py, pz>>,
         rot   |-> <<Neg(rx), Neg(ry), Neg(rz)>>,
         fov   |-> fov]

\* ----------------------------------------------------------- the aggregator

\* Line 454: duration = 1 / scene.render.fps, kept as a fraction.
FrameDuration(fps) == [num |-> 1, den |-> fps]

\* A mutant of FrameRecord: a negative angle gets a full turn added.
AddTurnIfNegative(d) == IF d # NaN /\ d < 0 THEN d + 4 * DegPerUnit * QuarterTurn ELSE d

FrameRecordNormalized(i, f, dur) ==
    [frame_index |-> i + 1,
     position    |-> [x |-> Round3(f.pos[1]),
                      y |-> Round3(f.pos[2]),
                      z |-> Round3(f.pos[3])],
     rotation    |-> [x |-> Round3(AddTurnIfNegative(Degrees(f.rot[1]))),
                      y |-> Round3(AddTurnIfNegative(Degrees(f.rot[2]))),
                      z |-> Round3(AddTurnIfNegative(Degrees(f.rot[3])))],
     FOV         |-> Round3(f.fov),
     duration    |-> dur]

\* A mutant of FrameRecord: the duration grows with the record's index.
FrameRecordDurationByIndex(i, f, dur) ==
    [frame_index |-> i + 1,
     position    |-> [x |-> Round3(f.pos[1]),
                      y |-> Round3(f.pos[2]),
                      z |-> Round3(f.pos[3])],
     rotation    |-> [x |-> Round3(Degrees(f.rot[1])),
                      y |-> Round3(Degrees(f.rot[2])),
                      z |-> Round3(Degrees(f.rot[3]))],
     FOV         |-> Round3(f.fov),
     duration    |-> [num |-> (i + 1) * dur.num, den |-> dur.den]]

\* Lines 470-487: the frame record temp of the i-th (from 0) entry of a path.
FrameRecord(i, f, dur) ==
    [frame_index |-> i + 1,
     position    |-> [x |-> Round3(f.pos[1]),
                      y |-> Round3(f.pos[2]),
                      z |-> Round3(f.pos[3])],
     rotation    |-> [x |-> Round3(Degrees(f.rot[1])),
                      y |-> Round3(Degrees(f.rot[2])),
                      z |-> Round3(Degrees(f.rot[3]))],
     FOV         |-> Round3(f.fov),
     duration    |-> dur]

\* Lines 459-489: a camera's movement script.
MovementDoc(path, loop, sync, dur) ==
    [syncToSong |-> sync,
     loop       |-> loop,
     frames     |-> [n \in 1..Len(path) |-> FrameRecord(n - 1, path[n], dur)]]

\* Lookup in an ordered dict (a sequence of [name, ...] records).
HasKey(d, name) == \E n \in 1..Len(d) : d[n].name = name

KeyIndex(d, name) == CHOOSE n \in 1..Len(d) : d[n].name = name

\* A mutant of PathsAppend: once the dict has a key, every sample goes to the
\* first key's list.
PathsAppendToFirst(d, name, dict_unity) ==
    IF Len(d) > 0
    THEN [d EXCEPT ![1].frames = Append(@, dict_unity)]
    ELSE Append(d, [name |-> name, frames |-> <<dict_unity>>])

\* Lines 411-414: paths[camera.name].append(dict_unity), the key created at
\* the end of the dict when it is new.
PathsAppend(d, name, dict_unity) ==
    IF HasKey(d, name)
    THEN [d EXCEPT ![KeyIndex(d, name)].frames = Append(@, dict_unity)]
    ELSE Append(d, [name |-> name, frames |-> <<dict_unity>>])

\* ---------------------------------------------------------------- the writer

\* json's text of a float: NaN for a non-finite one (allow_nan).
JsonFloat(v) == IF v = NaN THEN "NaN" ELSE ToString(v)

JsonBool(b) == IF b THEN "true" ELSE "false"

Line(k, field, text) == [index |-> k, field |-> field, text |-> text]

\* The lines of the k-th frame record, keys sorted: FOV, duration,
\* frame_index, position, rotation.
FrameLines(k, r) ==
    << Line(k, "frames.FOV", JsonFloat(r.FOV)),
       Line(k, "frames.duration",
            ToString(r.duration.num) \o "/" \o ToString(r.duration.den)),
       Line(k, "frames.frame_index", ToString(r.frame_index)),
       Line(k, "frames.position.x", JsonFloat(r.position.x)),
       Line(k, "frames.position.y", JsonFloat(r.position.y)),
       Line(k, "frames.position.z", JsonFloat(r.position.z)),
       Line(k, "frames.rotation.x", JsonFloat(r.rotation.x)),
       Line(k, "frames.rotation.y", JsonFloat(r.rotation.y)),
       Line(k, "frames.rotation.z", JsonFloat(r.rotation.z)) >>

RECURSIVE FramesLines(_, _)
FramesLines(frames, k) ==
    IF k > Len(frames) THEN <<>>
    ELSE FrameLines(k, frames[k]) \o FramesLines(frames, k + 1)

\* json.dumps(doc, indent=4, sort_keys=True), one value per line: frames,
\* loop, syncToSong.
JsonDumps(doc) ==
    FramesLines(doc.frames, 1)
        \o << Line(0, "loop", JsonBool(doc.loop)),
              Line(0, "syncToSong", JsonBool(doc.syncToSong)) >>

\* Line 504
PathTarget(base, camera_name) ==
    base \o <<"_">> \o camera_name \o <<".", "j", "s", "o", "n">>

\* What a write that fails partway may have put in the file: nothing, or the
\* first half of the text.
PartialWrites(text) == { SubSeq(text, 1, 0), SubSeq(text, 1, Len(text) \div 2) }

\* ------------------------------------------------------------------ actions

\* Line 289, on an object of bpy.data.objects.
IsB2C2Camera(name) ==
    /\ objects[name].type = "CAMERA"
    /\ StartsWith(Lower(name), CONFIG_CAMERA_PREFIX)

Perms(S) ==
    { p \in [1..Cardinality(S) -> S] : \A a, b \in 1..Cardinality(S) : a # b => p[a] # p[b] }

\* Lines 267-271: remember the selection.  With no active object,
\* objects.active is None and .name raises AttributeError.
StoreSelection ==
    /\ pc = "start"
    /\ IF active = NoObject
       THEN /\ pc' = "raised"
            /\ exc' = "AttributeError"
            /\ UNCHANGED <<pre_selected_active_object, pre_selected_objects>>
       ELSE /\ pc' = "find"
            /\ pre_selected_active_object' = active
            /\ pre_selected_objects' = selected
            /\ exc' = exc
    /\ UNCHANGED <<sceneVars, cameras, export_obj, cam_i, frame, paths, duration,
                   movement, path_base_noext, write_i, files>>

\* Lines 283-293: the cameras with the prefix, in the order keys() gives.
FindCameras ==
    /\ pc = "find"
    /\ \E keys \in Perms(DOMAIN objects) :
          cameras' = SelectSeq(keys, IsB2C2Camera)
    /\ pc' = "create"
    /\ UNCHANGED <<sceneVars, exc, pre_selected_active_object, pre_selected_objects,
                   export_obj, cam_i, frame, paths, duration, movement,
                   path_base_noext, write_i, files>>

\* Lines 304-310: empty_add makes the new empty the only selected object and
\* the active one; it then gets its random name.
CreateExportObject ==
    /\ pc = "create"
    /\ found' = found
    /\ \E h \in HexDigests :
          LET export_obj_name == CONFIG_EXPORT_OBJECT_PREFIX \o h
          IN  /\ objects' = (export_obj_name :> [type |-> "EMPTY", sensor_fit |-> "AUTO"])
                               @@ objects
              /\ selected' = {export_obj_name}
              /\ active' = export_obj_name
              /\ export_obj' = [NoExportObj EXCEPT !.name = export_obj_name]
    /\ cam_i' = 1
    /\ pc' = "camera"
    /\ UNCHANGED <<exc, frame_start, frame_end, frame_current, setting_fixFov, world,
                   pre_selected_active_object, pre_selected_objects, cameras, frame,
                   paths, duration, movement, path_base_noext, write_i, files>>

\* Lines 333-346: the next camera; its sensor values when asked for, and the
\* start of its frame loop (which is empty when frame_start > frame_end).
BeginCamera ==
    /\ pc = "camera"
    /\ found' = found
    /\ cam_i <= Len(cameras)
    /\ objects' = IF setting_fixFov
                  THEN [objects EXCEPT ![cameras[cam_i]].sensor_fit = CONFIG_CAMERA_SENSOR_FIT]
                  ELSE objects
    /\ IF frame_start <= frame_end
       THEN /\ frame' = frame_start
            /\ pc' = "frame"
            /\ cam_i' = cam_i
       ELSE /\ cam_i' = cam_i + 1
            /\ UNCHANGED <<frame, pc>>
    /\ UNCHANGED <<exc, selected, active, frame_start, frame_end, frame_current,
                   setting_fixFov, world, pre_selected_active_object,
                   pre_selected_objects, cameras, export_obj, paths, duration,
                   movement, path_base_noext, write_i, files>>

\* Lines 346-414: one pass of the frame loop, the scene giving the camera the
\* pose p at this frame.
SampleFrame(P) ==
    /\ pc = "frame"
    /\ found' = found
    /\ \E p \in P :
          LET camera     == cameras[cam_i]
              mw_blender == [rot |-> p.rot, loc |-> p.loc]
              obj        == OffsetExportObj(export_obj, mw_blender)
              mw_unity   == obj.matrix_world
              fov        == Degrees(p.angle_y)
          IN  /\ world' = (<<camera, frame>> :> p) @@ world
              /\ export_obj' = obj
              /\ paths' = PathsAppend(paths, camera, DictUnity(frame, mw_unity, fov))
    /\ frame_current' = frame
    /\ IF frame < frame_end
       THEN /\ frame' = frame + 1
            /\ UNCHANGED <<cam_i, pc>>
       ELSE /\ cam_i' = cam_i + 1
            /\ pc' = "camera"
            /\ frame' = frame
    /\ UNCHANGED <<exc, objects, selected, active, frame_start, frame_end,
                   setting_fixFov, pre_selected_active_object, pre_selected_objects,
                   cameras, duration, movement, path_base_noext, write_i, files>>

\* Lines 416-418: select the export object and delete every selected object.
CleanUp ==
    /\ pc = "camera"
    /\ found' = found
    /\ cam_i > Len(cameras)
    /\ LET sel == selected \cup {export_obj.name}
       IN  /\ objects' = [n \in DOMAIN objects \ sel |-> objects[n]]
           /\ selected' = {}
           /\ active' = IF active \in sel THEN NoObject ELSE active
    /\ pc' = "restore"
    /\ UNCHANGED <<exc, frame_start, frame_end, frame_current, setting_fixFov, world,
                   pre_selected_active_object, pre_selected_objects, cameras,
                   export_obj, cam_i, frame, paths, duration, movement,
                   path_base_noext, write_i, files>>

\* A mutant of RestoreSelection: the selection is restored, the active
\* object is left as the deletion left it.
RestoreSelectionOnly ==
    /\ pc = "restore"
    /\ found' = found
    /\ IF pre_selected_objects \subseteq DOMAIN objects
       THEN /\ selected' = pre_selected_objects
            /\ pc' = "convert"
            /\ exc' = exc
       ELSE /\ selected' = pre_selected_objects \cap DOMAIN objects
            /\ pc' = "raised"
            /\ exc' = "KeyError"
    /\ UNCHANGED <<objects, active, frame_start, frame_end, frame_current,
                   setting_fixFov, world, pre_selected_active_object,
                   pre_selected_objects, cameras, export_obj, cam_i, frame, paths,
                   duration, movement, path_base_noext, write_i, files>>

\* Lines 426-434: restore the selection.  bpy.data.objects[name] raises
\* KeyError for a name that no longer exists.
RestoreSelection ==
    /\ pc = "restore"
    /\ found' = found
    /\ IF (pre_selected_objects \cup {pre_selected_active_object}) \subseteq DOMAIN objects
       THEN /\ selected' = pre_selected_objects
            /\ active' = pre_selected_active_object
            /\ pc' = "convert"
            /\ exc' = exc
       ELSE /\ selected' = pre_selected_objects \cap DOMAIN objects
            /\ active' = active
            /\ pc' = "raised"
            /\ exc' = "KeyError"
    /\ UNCHANGED <<objects, frame_start, frame_end, frame_current, setting_fixFov,
                   world, pre_selected_active_object, pre_selected_objects, cameras,
                   export_obj, cam_i, frame, paths, duration, movement,
                   path_base_noext, write_i, files>>

\* Lines 451-489: the movement scripts, from the paths, the frame rate and the
\* two playback options.
BuildMovement ==
    /\ pc = "convert"
    /\ \E s \in RunSettings :
          /\ duration' = FrameDuration(s.fps)
          /\ movement' = [n \in 1..Len(paths) |->
                            [name |-> paths[n].name,
                             doc  |-> MovementDoc(paths[n].frames, s.loop,
                                                  s.syncToSong, FrameDuration(s.fps))]]
    /\ pc' = "split"
    /\ UNCHANGED <<sceneVars, exc, pre_selected_active_object, pre_selected_objects,
                   cameras, export_obj, cam_i, frame, paths, path_base_noext,
                   write_i, files>>

\* Line 501
SplitPath ==
    /\ pc = "split"
    /\ \E filepath \in FilePaths : path_base_noext' = SplitextRoot(filepath)
    /\ write_i' = 1
    /\ pc' = "write"
    /\ UNCHANGED <<sceneVars, exc, pre_selected_active_object, pre_selected_objects,
                   cameras, export_obj, cam_i, frame, paths, duration, movement,
                   files>>

\* Lines 503-508, the write succeeding.
WriteFile ==
    /\ pc = "write"
    /\ write_i <= Len(movement)
    /\ LET path_target == PathTarget(path_base_noext, movement[write_i].name)
       IN  files' = (path_target :> JsonDumps(movement[write_i].doc)) @@ files
    /\ write_i' = write_i + 1
    /\ UNCHANGED <<sceneVars, pc, exc, pre_selected_active_object,
                   pre_selected_objects, cameras, export_obj, cam_i, frame, paths,
                   duration, movement, path_base_noext>>

\* Lines 507-508, open() raising OSError: nothing is created.
OpenFails ==
    /\ pc = "write"
    /\ write_i <= Len(movement)
    /\ pc' = "raised"
    /\ exc' = "OSError"
    /\ UNCHANGED <<sceneVars, pre_selected_active_object, pre_selected_objects,
                   cameras, export_obj, cam_i, frame, paths, duration, movement,
                   path_base_noext, write_i, files>>

\* Lines 507-508, fh.write() raising OSError partway: open(path, 'w') has
\* created or emptied the file, and a part of the text may have reached it.
WriteFails ==
    /\ pc = "write"
    /\ write_i <= Len(movement)
    /\ LET path_target == PathTarget(path_base_noext, movement[write_i].name)
       IN  \E part \in PartialWrites(JsonDumps(movement[write_i].doc)) :
              files' = (path_target :> part) @@ files
    /\ pc' = "raised"
    /\ exc' = "OSError"
    /\ UNCHANGED <<sceneVars, pre_selected_active_object, pre_selected_objects,
                   cameras, export_obj, cam_i, frame, paths, duration, movement,
                   path_base_noext, write_i>>

\* Lines 510-516: return {'FINISHED'}
Finish ==
    /\ pc = "write"
    /\ write_i > Len(movement)
    /\ pc' = "done"
    /\ UNCHANGED <<sceneVars, exc, pre_selected_active_object, pre_selected_objects,
                   cameras, export_obj, cam_i, frame, paths, duration, movement,
                   path_base_noext, write_i, files>>

Next ==
    \/ StoreSelection
    \/ FindCameras
    \/ CreateExportObject
    \/ BeginCamera
    \/ SampleFrame(ScenePoses)
    \/ CleanUp
    \/ RestoreSelection
    \/ BuildMovement
    \/ SplitPath
    \/ WriteFile
    \/ OpenFails
    \/ WriteFails
    \/ Finish

Spec == Init /\ [][Next]_vars

\* The export of one or two cameras over one or two frames, the scene giving
\* every axis-aligned orientation: the transform over all its inputs, each
\* after every other.
InitPose ==
    /\ \/ objects = ObjectsOf({CamA}) /\ frame_end \in {1, 2}
       \/ objects = ObjectsOf({CamA, CamB}) /\ frame_end = 1
    /\ active = CamA.name
    /\ selected = {active}
    /\ frame_start = 1
    /\ frame_current = 1
    /\ setting_fixFov = FALSE
    /\ found = Found
    /\ Locals0

NextPose ==
    \/ StoreSelection
    \/ FindCameras
    \/ CreateExportObject
    \/ BeginCamera
    \/ SampleFrame(AllPoses)
    \/ CleanUp
    \/ RestoreSelection
    \/ BuildMovement
    \/ SplitPath
    \/ WriteFile
    \/ OpenFails
    \/ WriteFails
    \/ Finish

SpecPose == InitPose /\ [][NextPose]_vars

\* The export of one frame from every scene under every selection the view
\* layer can hold: any set of objects selected, any object or none active,
\* the active one selected or not.
InitSelection ==
    /\ \E cs \in Scenes : objects = ObjectsOf(cs)
    /\ selected \in SUBSET DOMAIN objects
    /\ active \in DOMAIN objects \cup {NoObject}
    /\ frame_start = 1
    /\ frame_end = 1
    /\ frame_current = 1
    /\ setting_fixFov \in BOOLEAN
    /\ found = Found
    /\ Locals0

SpecSelection == InitSelection /\ [][Next]_vars

\* ------------------------------------------------------------------ claims

\* <<n, k>>: the k-th sample of the n-th path.
Samples == UNION { {<<n, k>> : k \in 1..Len(paths[n].frames)} : n \in 1..Len(paths) }

Sample(nk) == paths[nk[1]].frames[nk[2]]

\* The pose the scene gave the camera of a sample at the sample's frame.
PoseOf(nk) == world[<<paths[nk[1]].name, Sample(nk).frame>>]

\* <<n, k>>: the k-th frame record of the n-th movement script.
RecordIds ==
    UNION { {<<n, k>> : k \in 1..Len(movement[n].doc.frames)} : n \in 1..Len(movement) }

Record(nk) == movement[nk[1]].doc.frames[nk[2]]

RotationOf(r) == {r.rotation.x, r.rotation.y, r.rotation.z}

\* 360 and 180 degrees, in 1/10000 of a degree.
FullTurnDeg == 4 * DegPerUnit * QuarterTurn

HalfTurnDeg == 2 * DegPerUnit * QuarterTurn

\* C1 as stated: every rotation angle of every frame record lies in
\* [0, 360) degrees, so none is negative.
C1_RotationInZeroTo360 ==
    \A nk \in RecordIds : \A a \in RotationOf(Record(nk)) : 0 <= a /\ a < FullTurnDeg

\* C1, amended: every rotation angle of every frame record lies in
\* [-180, 180] degrees; it is the negated Euler angle in degrees, rounded,
\* with no full turn added, so a negative angle is exported as it is.
C1_RotationWithinHalfTurn ==
    \A nk \in RecordIds :
        /\ \A a \in RotationOf(Record(nk)) : -HalfTurnDeg <= a /\ a <= HalfTurnDeg
        /\ nk \in Samples =>
              /\ Record(nk).rotation.x = Round3(Degrees(Sample(nk).rot[1]))
              /\ Record(nk).rotation.y = Round3(Degrees(Sample(nk).rot[2]))
              /\ Record(nk).rotation.z = Round3(Degrees(Sample(nk).rot[3]))

\* A file was written with a negative rotation angle in it.
C1_NegativeRotationWritten ==
    /\ pc = "done"
    /\ \E nk \in RecordIds : \E a \in RotationOf(Record(nk)) : a < 0

\* C2: the position of every sample is the source position with the first
\* component kept and the second and third swapped, the offset object's
\* translation being the camera's; the frame record carries it rounded to
\* three decimals.
C2_PositionSwapsYZ ==
    /\ \A nk \in Samples :
          LET s == PoseOf(nk).loc
          IN  Sample(nk).pos = <<s[1], s[3], s[2]>>
    /\ \A nk \in RecordIds :
          nk \in Samples =>
             LET s == PoseOf(nk).loc
             IN  Record(nk).position =
                    [x |-> Round3(s[1]), y |-> Round3(s[3]), z |-> Round3(s[2])]

\* A camera at (1, 2, 3) was exported at (1, 3, 2).
C2_OneTwoThreeExported ==
    /\ pc = "done"
    /\ \E nk \in RecordIds :
          /\ PoseOf(nk).loc = <<10000, 20000, 30000>>
          /\ Record(nk).position = [x |-> 10000, y |-> 30000, z |-> 20000]

\* The orientation a sample is decomposed from: the camera's with the
\* export object's quarter turn of pitch taken off.
OffsetOrientation(nk) == MatMul(PoseOf(nk).rot, RotX(-QuarterTurn))

\* C9: the export object's matrix after a sample is the camera's matrix with
\* the pitch offset applied once, whatever the object held before, and two
\* samples of the same pose have the same converted position and rotation.
C9_ConversionDependsOnSampleOnly ==
    /\ \A nk \in Samples :
          (nk[1] = Len(paths) /\ nk[2] = Len(paths[nk[1]].frames)) =>
             export_obj.matrix_world =
                [rot |-> OffsetOrientation(nk), loc |-> PoseOf(nk).loc]
    /\ \A a, b \in Samples :
          PoseOf(a) = PoseOf(b) =>
             /\ Sample(a).pos = Sample(b).pos
             /\ Sample(a).rot = Sample(b).rot
             /\ Sample(a).fov = Sample(b).fov

\* The same pose, not the identity, was sampled twice: once more after the
\* export object had already taken it and the offset.
C9_SamePoseSampledTwice ==
    \E a, b \in Samples :
        /\ a # b
        /\ PoseOf(a) = PoseOf(b)
        /\ PoseOf(a).rot # Identity3
        /\ Sample(a).rot = Sample(b).rot

\* C10: with (ex, ey, ez) the 'YXZ' Euler angles of the offset orientation,
\* the rotation of a sample is (-ex, -ez, -ey); undoing the flip and the
\* swap and composing the angles in 'YXZ' order gives the orientation back.
C10_RotationFlippedAndSwapped ==
    \A nk \in Samples : \A m \in {OffsetOrientation(nk)} :
        \A e \in {Mat3ToEulO(m, "YXZ")}, r \in {Sample(nk).rot} :
            /\ r = <<-e[1], -e[3], -e[2]>>
            /\ EulOToMat3(<<-r[1], -r[3], -r[2]>>, "YXZ") = m

\* A sample whose Y and Z Euler angles differ, so that the swap shows.
C10_SwapVisible ==
    \E nk \in Samples : \E m \in {OffsetOrientation(nk)} :
        \E e \in {Mat3ToEulO(m, "YXZ")} :
            /\ e[2] # e[3]
            /\ e[2] # 0
            /\ e[1] # 0
            /\ Sample(nk).rot[2] = -e[3]

\* The cameras of the blend file that carry the prefix.
Qualifying == { n \in DOMAIN objects : IsB2C2Camera(n) }

\* C3 as stated: a completed export has written exactly one file per
\* qualifying camera, named <base>_<camera name>.json, whatever the frame
\* range.
C3_OneFilePerQualifyingCamera ==
    pc = "done" =>
       DOMAIN files = { PathTarget(path_base_noext, n) : n \in Qualifying }

\* C4: every movement script has frame_end - frame_start + 1 frame records;
\* the k-th has frame_index k and is built from the pose its own camera had
\* at frame frame_start + k - 1.
C4_FramesFollowTimeline ==
    \A n \in 1..Len(movement) :
        /\ paths[n].name = movement[n].name
        /\ Len(movement[n].doc.frames) = frame_end - frame_start + 1
        /\ \A k \in 1..Len(movement[n].doc.frames) :
              \A r \in {movement[n].doc.frames[k]},
                 p \in {world[<<movement[n].name, frame_start + k - 1>>]} :
                 /\ r.frame_index = k
                 /\ paths[n].frames[k].frame = frame_start + k - 1
                 /\ r.position = [x |-> Round3(p.loc[1]), y |-> Round3(p.loc[3]),
                                  z |-> Round3(p.loc[2])]
                 /\ r.FOV = Round3(Degrees(p.angle_y))
                 /\ r.rotation.x = Round3(Degrees(paths[n].frames[k].rot[1]))
                 /\ r.rotation.y = Round3(Degrees(paths[n].frames[k].rot[2]))
                 /\ r.rotation.z = Round3(Degrees(paths[n].frames[k].rot[3]))

\* Two cameras were exported over two frames or more, their poses differing
\* at the first frame.
C4_TwoCamerasTwoFrames ==
    /\ pc = "done"
    /\ Len(movement) = 2
    /\ Len(movement[1].doc.frames) >= 2
    /\ Len(movement[2].doc.frames) >= 2
    /\ world[<<movement[1].name, frame_start>>] # world[<<movement[2].name, frame_start>>]
    /\ movement[1].doc.frames[1] # movement[2].doc.frames[1]

\* C5 as stated: no file holds a non-finite position, rotation or FOV value.
C5_NoNonFiniteWritten ==
    \A f \in DOMAIN files : \A i \in 1..Len(files[f]) : files[f][i].text # "NaN"

\* C6 as stated: a run on a scene with no qualifying camera ends finished,
\* with no file written and the export object removed.
C6_NoCameraRunFinishes ==
    (Qualifying = {} /\ pc \in {"done", "raised"}) =>
       /\ pc = "done"
       /\ DOMAIN files = {}
       /\ export_obj.name # NoObject
       /\ export_obj.name \notin DOMAIN objects

\* C7 as stated: every output path holds the whole JSON text of its camera or
\* holds nothing of this run.
C7_FilesCompleteOrAbsent ==
    \A n \in 1..Len(movement) :
        \A path \in {PathTarget(path_base_noext, movement[n].name)} :
            path \in DOMAIN files => files[path] = JsonDumps(movement[n].doc)

\* C8: every frame record of every camera carries the run's one duration,
\* 1 / fps, in the movement scripts and in the files.
C8_DurationConstant ==
    /\ \A nk \in RecordIds :
          /\ Record(nk).duration = duration
          /\ duration.num = 1
          /\ duration.den \in { s.fps : s \in RunSettings }
    /\ \A f \in DOMAIN files : \A i \in 1..Len(files[f]) :
          files[f][i].field = "frames.duration" =>
             files[f][i].text = "1/" \o ToString(duration.den)

\* Two cameras with two frame records or more each were written.
C8_TwoScriptsWritten ==
    /\ pc = "done"
    /\ Cardinality(DOMAIN files) = 2
    /\ \A n \in 1..Len(movement) : Len(movement[n].doc.frames) >= 2
    /\ \E f \in DOMAIN files : \E i \in 1..Len(files[f]) :
          files[f][i].field = "frames.duration"

\* The temporary object the run created, if it still exists.
ExportObjectExists ==
    \E n \in DOMAIN objects :
        StartsWith(n, CONFIG_EXPORT_OBJECT_PREFIX) /\ n \notin found.objects

\* C11: when an export has completed, the selected objects and the active
\* object are those the export found, whatever they were; the temporary
\* export object no longer exists; and every object that existed before the
\* export still exists.
C11_SceneRestored ==
    pc = "done" =>
        /\ selected = found.selected
        /\ active = found.active
        /\ export_obj.name # NoObject
        /\ export_obj.name \notin DOMAIN objects
        /\ ~ExportObjectExists
        /\ found.objects \subseteq DOMAIN objects

\* An export completed, with a file written, from a scene where a qualifying
\* camera was selected next to another object and a third object, itself
\* not selected, was the active one.
C11_CompletedWithCameraSelected ==
    /\ pc = "done"
    /\ files # <<>>
    /\ Len(cameras) >= 1
    /\ cameras[1] \in found.selected
    /\ Cardinality(found.selected) >= 2
    /\ found.active \notin found.selected
    /\ found.active # NoObject

====
